---------------------------- MODULE Spec2Model ----------------------------
(***************************************************************************)
(* A model of lib/resolvers.js of the aws-app-sync component:              *)
(*   createOrUpdateResolvers(appSync, config, debug)                       *)
(*   removeObsoleteResolvers(appSync, config, state, debug)                *)
(* Both are async functions over an injected AppSync client.  An async     *)
(* function runs synchronously up to its first await; every await of a     *)
(* remote call is a point where the remote answers in a later step.  The   *)
(* model has one action per synchronous stretch of the code and one per    *)
(* remote answer.                                                          *)
(***************************************************************************)
EXTENDS Integers, Sequences, FiniteSets, TLC

VARIABLES
    config,                 \* the declared config: apiId, mappingTemplates, functions
    remote,                 \* the AppSync service: the set of deployed resolvers
    pass,                   \* number of the running createOrUpdateResolvers pass
    pc,                     \* the line the pass has reached: idle, checking (12), listing (23),
                            \* templates (37), applying (75), end (returned)
    tasks,                  \* per declared resolver: the promise of the current Promise.all
    listed,                 \* per declared resolver: what its listResolvers call returned
    dsType,                 \* per declared resolver: the data source type getDataSource returned
    deployedResolvers,      \* line 13
    resolversWithTemplates, \* line 37
    resolversToDeploy,      \* line 58
    result,                 \* what the pass returned (resolved value)
    error,                  \* what the pass threw (its promise's rejection), Nil when nothing
    calls,                  \* history: the remote calls in the order they were issued
    applied,                \* history: <<pass, index>> of the writes the remote applied
    rejected,               \* history: <<pass, index>> of the writes the remote rejected
    outcomes,               \* history: per earlier pass, "returned" or "thrown"
    state,                  \* removeObsoleteResolvers: state.mappingTemplates
    rpc,                    \* removeObsoleteResolvers: idle, removing, done, failed
    obsoleteResolvers,      \* line 134
    rtasks,                 \* per obsolete resolver: the promise of its delete
    rerror                  \* what removeObsoleteResolvers threw

vars == <<config, remote, pass, pc, tasks, listed, dsType, deployedResolvers,
          resolversWithTemplates, resolversToDeploy, result, error, calls,
          applied, rejected, outcomes, state, rpc, obsoleteResolvers, rtasks, rerror>>

syncVars == <<pass, pc, tasks, listed, dsType, deployedResolvers,
              resolversWithTemplates, resolversToDeploy, result, error,
              applied, rejected, outcomes>>

removeVars == <<state, rpc, obsoleteResolvers, rtasks, rerror>>

---------------------------------------------------------------------------
(* Bounds of the model. *)

\* longest config.mappingTemplates
MaxTemplates == 2
\* longest state.mappingTemplates
MaxState == 2
\* passes of createOrUpdateResolvers in a row (SpecRerun)
MaxPasses == 2

---------------------------------------------------------------------------
(* Values. *)

\* JavaScript's undefined / null (ramda's isNil)
Nil == "nil"
isNil(x) == x = Nil

\* JavaScript's falsy strings: the left operand of || on lines 48 and 50
Falsy(x) == x = Nil \/ x = ""

LambdaRequestTemplate ==
    "{ \"version\": \"2017-02-28\", \"operation\": \"Invoke\", \"payload\": $util.toJson($context.arguments) })"
LambdaResponseTemplate == "$util.toJson($context.result)"

ApiId == "api1"

\* the data sources of the remote API and their types (getDataSource)
DataSourceType(name) ==
    CASE name = "DS1" -> "AWS_LAMBDA"
      [] name = "DS2" -> "AMAZON_DYNAMODB"
      [] OTHER -> Nil

\* the files that exist, and their content (readIfFile)
FileExists(path) == path = "req.vtl"
FileContent(path) == "#request"

\* config.functions
ConfigFunctions ==
    << [name |-> "f1", functionId |-> "id1"],
       [name |-> "f2", functionId |-> "id2"],
       [name |-> "f3", functionId |-> Nil] >>

NoPipelineConfig == [declared |-> FALSE, functions |-> <<>>]
PipelineConfigOf(names) == [declared |-> TRUE, functions |-> names]

Range(s) == {s[i] : i \in DOMAIN s}


RECURSIVE SetToSeq(_)
SetToSeq(S) ==
    IF S = {} THEN <<>>
    ELSE LET x == CHOOSE y \in S : TRUE IN <<x>> \o SetToSeq(S \ {x})

RECURSIVE flatten(_)
flatten(ss) == IF ss = <<>> THEN <<>> ELSE Head(ss) \o flatten(Tail(ss))

---------------------------------------------------------------------------
(* The inputs: declared mapping templates, deployed resolvers. *)

Types == {"Query", "Mutation"}
Fields == {"getItem"}
\* declared <<request, response>>: absent, empty text, a file, inline text
RequestResponses ==
    { <<Nil, Nil>>, <<"", Nil>>, <<Nil, "RES">>, <<"req.vtl", "RES">> }
\* declared pipelineConfig of a PIPELINE resolver: none, functions that exist,
\* a function of no entry in config.functions, a function of no functionId
PipelineConfigs ==
    { NoPipelineConfig, PipelineConfigOf(<<"f2", "f1">>),
      PipelineConfigOf(<<"f1", "nope">>), PipelineConfigOf(<<"f3">>) }

MappingTemplate(d, t, f, rr, k, p) ==
    [dataSource |-> d, type |-> t, field |-> f, request |-> rr[1], response |-> rr[2],
     kind |-> k, pipelineConfig |-> p]

\* resolvers of no kind (unit resolvers); the code reads no pipelineConfig of
\* them.  One without dataSource stops at getDataSource when it misses a
\* template, whichever it misses, and at line 109 when it misses none.  One
\* resolver is of another field of a type that the others have too
UnitTemplates ==
    { MappingTemplate(d, t, f, rr, Nil, NoPipelineConfig) :
        d \in {"DS1", "DS2"}, t \in Types, f \in Fields, rr \in RequestResponses }
    \cup
    { MappingTemplate(Nil, t, f, rr, Nil, NoPipelineConfig) :
        t \in Types, f \in Fields, rr \in {<<Nil, Nil>>, <<"req.vtl", "RES">>} }
    \cup
    { MappingTemplate("DS2", "Query", "listItems", <<"req.vtl", "RES">>, Nil, NoPipelineConfig) }

\* PIPELINE resolvers: without dataSource, of every pipelineConfig; with a
\* dataSource (they stop at line 105), with and without templates
PipelineTemplates ==
    { MappingTemplate(Nil, t, f, <<"req.vtl", "RES">>, "PIPELINE", p) :
        t \in Types, f \in Fields, p \in PipelineConfigs }
    \cup
    { MappingTemplate("DS1", t, f, rr, "PIPELINE", NoPipelineConfig) :
        t \in Types, f \in Fields, rr \in {<<Nil, Nil>>, <<"req.vtl", "RES">>} }

MappingTemplates == UnitTemplates \cup PipelineTemplates

SeqsUpTo(S, n) == UNION { [1..m -> S] : m \in 0..n }

ConfigOf(templates) ==
    [apiId |-> ApiId, mappingTemplates |-> templates, functions |-> ConfigFunctions]

\* a resolver as the AppSync API holds and returns it
RemoteResolver(t, f, d, rq, rs, k, pc0) ==
    [typeName |-> t, fieldName |-> f, dataSourceName |-> d,
     requestMappingTemplate |-> rq, responseMappingTemplate |-> rs,
     kind |-> k, pipelineConfig |-> pc0]

NoParamPipelineConfig == [present |-> FALSE, hasFunctions |-> FALSE, functions |-> <<>>]

UnitSeed == 
    RemoteResolver("Query", "getItem", "DS1", "#request", "RES", Nil, NoParamPipelineConfig)
LambdaSeed ==
    RemoteResolver("Query", "getItem", "DS1", LambdaRequestTemplate,
                   LambdaResponseTemplate, Nil, NoParamPipelineConfig)
PipelineSeed ==
    RemoteResolver("Mutation", "getItem", Nil, "#request", "RES", "PIPELINE",
                   [present |-> TRUE, hasFunctions |-> FALSE, functions |-> <<>>])
\* a deployed resolver that no config declares
OtherSeed ==
    RemoteResolver("Mutation", "other", "DS2", "#request", "RES", Nil,
                   NoParamPipelineConfig)

\* what is deployed when the first pass starts
InitRemotes == { {}, {UnitSeed, OtherSeed}, {LambdaSeed, PipelineSeed} }

---------------------------------------------------------------------------
(* Helpers of lib/index.js, as the specification describes them. *)

\* checkForDuplicates(keys, array) throws when two entries agree on every key
HasDuplicates(keys, array) ==
    \E i \in DOMAIN array, j \in DOMAIN array :
        i < j /\ \A k \in keys : array[i][k] = array[j][k]

\* equalsByKeys(keys, a, b): every named field is equal by value
equalsByKeys(keys, a, b) == \A k \in keys : a[k] = b[k]

\* listAll(appSync, 'listResolvers', {apiId, typeName}, 'resolvers'): every page, drained
listAll(resolvers, typeName) == SetToSeq({r \in resolvers : r.typeName = typeName})

\* readIfFile(data): the file's content when data names a file, else data itself
readIfFile(data) ==
    IF isNil(data) THEN Nil
    ELSE IF FileExists(data) THEN FileContent(data) ELSE data

---------------------------------------------------------------------------
(* createOrUpdateResolvers: the pure parts. *)

DuplicateKeys == {"dataSource", "type", "field"}
EqualityKeys ==
    {"dataSource", "type", "field", "responseMappingTemplate", "requestMappingTemplate"}

\* lines 15-21: a listed resolver with the aliases type, field, dataSource
Normalize(resolver) ==
    [typeName |-> resolver.typeName, fieldName |-> resolver.fieldName,
     dataSourceName |-> resolver.dataSourceName,
     requestMappingTemplate |-> resolver.requestMappingTemplate,
     responseMappingTemplate |-> resolver.responseMappingTemplate,
     kind |-> resolver.kind, pipelineConfig |-> resolver.pipelineConfig,
     type |-> resolver.typeName, field |-> resolver.fieldName,
     dataSource |-> resolver.dataSourceName]

\* lines 13-35: the lists of every declared resolver's type, flattened and normalized
DeployedOf(lists) ==
    LET flat == flatten(lists) IN [i \in DOMAIN flat |-> Normalize(flat[i])]

\* line 42: the resolver needs its data source's type
NeedsDataSource(resolver) ==
    isNil(readIfFile(resolver.request)) \/ isNil(readIfFile(resolver.response))

\* lines 46-50: a template that is falsy gets the Lambda default
FillRequest(requestMappingTemplate) ==
    IF Falsy(requestMappingTemplate) THEN LambdaRequestTemplate
    ELSE requestMappingTemplate
FillResponse(responseMappingTemplate) ==
    IF Falsy(responseMappingTemplate) THEN LambdaResponseTemplate
    ELSE responseMappingTemplate

\* lines 38-54: the declared resolver merged with its two templates;
\* type is the type getDataSource returned (read only when it was called)
WithTemplates(resolver, type) ==
    LET request == readIfFile(resolver.request)
        response == readIfFile(resolver.response)
        lambda == (isNil(request) \/ isNil(response)) /\ type = "AWS_LAMBDA"
    IN  [dataSource |-> resolver.dataSource, type |-> resolver.type,
         field |-> resolver.field, request |-> resolver.request,
         response |-> resolver.response, kind |-> resolver.kind,
         pipelineConfig |-> resolver.pipelineConfig,
         requestMappingTemplate |-> IF lambda THEN FillRequest(request) ELSE request,
         responseMappingTemplate |-> IF lambda THEN FillResponse(response) ELSE response]

\* lines 59-62: ramda's find: the index of the first deployed resolver with the
\* declared resolver's type and field, 0 when there is none
FindDeployed(resolver, deployed) ==
    LET hits == {i \in DOMAIN deployed :
                    deployed[i].type = resolver.type /\ deployed[i].field = resolver.field}
    IN  IF hits = {} THEN 0 ELSE CHOOSE i \in hits : \A j \in hits : i <= j

\* Mode as it would be with the two templates left out of the comparison
ModeWithoutTemplates(resolver, deployed) ==
    LET found == FindDeployed(resolver, deployed)
        resolverEquals ==
            IF found = 0 THEN FALSE
            ELSE equalsByKeys({"dataSource", "type", "field"}, deployed[found], resolver)
    IN  IF ~resolverEquals THEN (IF found = 0 THEN "create" ELSE "update") ELSE "ignore"

\* lines 63-71
Mode(resolver, deployed) ==
    LET found == FindDeployed(resolver, deployed)
        resolverEquals ==
            IF found = 0 THEN FALSE
            ELSE equalsByKeys(EqualityKeys, deployed[found], resolver)
    IN  IF ~resolverEquals THEN (IF found = 0 THEN "create" ELSE "update") ELSE "ignore"

\* line 72
WithMode(resolver, deployed) ==
    [dataSource |-> resolver.dataSource, type |-> resolver.type,
     field |-> resolver.field, request |-> resolver.request,
     response |-> resolver.response, kind |-> resolver.kind,
     pipelineConfig |-> resolver.pipelineConfig,
     requestMappingTemplate |-> resolver.requestMappingTemplate,
     responseMappingTemplate |-> resolver.responseMappingTemplate,
     mode |-> Mode(resolver, deployed)]

\* lines 58-73
Classify(withTemplates, deployed) ==
    [i \in DOMAIN withTemplates |-> WithMode(withTemplates[i], deployed)]

\* line 78: the resolver's function names are mapped to ids
MapsFunctions(resolver) ==
    resolver.kind = "PIPELINE" /\ resolver.pipelineConfig.declared

\* lines 81-84: find by name in config.functions, 0 when there is none
FindFunction(name, functions) ==
    LET hits == {i \in DOMAIN functions : functions[i].name = name}
    IN  IF hits = {} THEN 0 ELSE CHOOSE i \in hits : \A j \in hits : i <= j

\* FunctionError as it would be without the check of line 85
FunctionErrorWithoutIdCheck(name, functions) ==
    IF FindFunction(name, functions) = 0 THEN "TypeError" ELSE Nil

\* lines 80-87: what maps the name: "TypeError" (destructuring undefined),
\* "FunctionMissing" (line 85), or Nil when it has an id
FunctionError(name, functions) ==
    LET found == FindFunction(name, functions)
    IN  IF found = 0 THEN "TypeError"
        ELSE IF isNil(functions[found].functionId) THEN "FunctionMissing"
        ELSE Nil

\* FunctionIds as it would be if the ids came in the order of config.functions
FunctionIdsInConfigOrder(names, functions) ==
    LET named == SelectSeq(functions, LAMBDA f : f.name \in Range(names))
    IN  [i \in DOMAIN named |-> named[i].functionId]

\* lines 80-87: the ids, in the order of the names
FunctionIds(names, functions) ==
    [i \in DOMAIN names |->
        IF FindFunction(names[i], functions) = 0 THEN Nil
        ELSE functions[FindFunction(names[i], functions)].functionId]

\* ApplyError as it would be without the checks of lines 104 and 108
ApplyErrorOfFunctionsOnly(resolver, functions) ==
    LET names == resolver.pipelineConfig.functions
        bad == {i \in DOMAIN names : ~isNil(FunctionError(names[i], functions))}
    IN  IF MapsFunctions(resolver) /\ bad # {}
        THEN FunctionError(names[CHOOSE i \in bad : \A j \in bad : i <= j], functions)
        ELSE Nil

\* lines 77-112: the error the synchronous part of the apply task throws, or Nil
ApplyError(resolver, functions) ==
    LET names == resolver.pipelineConfig.functions
        bad == {i \in DOMAIN names : ~isNil(FunctionError(names[i], functions))}
    IN  IF MapsFunctions(resolver) /\ bad # {}
        THEN FunctionError(names[CHOOSE i \in bad : \A j \in bad : i <= j], functions)
        ELSE IF resolver.kind = "PIPELINE"
        THEN (IF ~isNil(resolver.dataSource) THEN "PipelineWithDataSource" ELSE Nil)
        ELSE (IF isNil(resolver.dataSource) THEN "DataSourceMissing" ELSE Nil)

\* lines 89-112: the params of createResolver / updateResolver
Params(resolver, cfg) ==
    [apiId |-> cfg.apiId,
     fieldName |-> resolver.field,
     requestMappingTemplate |-> resolver.requestMappingTemplate,
     responseMappingTemplate |-> resolver.responseMappingTemplate,
     typeName |-> resolver.type,
     kind |-> resolver.kind,
     pipelineConfig |->
        IF resolver.kind = "PIPELINE"
        THEN IF MapsFunctions(resolver)
             THEN [present |-> TRUE, hasFunctions |-> TRUE,
                   functions |-> FunctionIds(resolver.pipelineConfig.functions, cfg.functions)]
             ELSE [present |-> TRUE, hasFunctions |-> FALSE, functions |-> <<>>]
        ELSE NoParamPipelineConfig,
     dataSourceName |-> IF resolver.kind = "PIPELINE" THEN Nil ELSE resolver.dataSource,
     name |-> Nil]

\* the params of listResolvers (line 29), getDataSource (line 44), deleteResolver (143-147)
ReadParams(apiId, typeName, fieldName, name) ==
    [apiId |-> apiId, fieldName |-> fieldName, requestMappingTemplate |-> Nil,
     responseMappingTemplate |-> Nil, typeName |-> typeName, kind |-> Nil,
     pipelineConfig |-> NoParamPipelineConfig, dataSourceName |-> Nil, name |-> name]

Call(p, i, op, params) == [pass |-> p, index |-> i, op |-> op, params |-> params]

\* the calls a map over a list issues, in the order of the list: call[i] is
\* the call of entry i, of op Nil when the entry issues none
Issued(call) == SelectSeq(call, LAMBDA c : ~isNil(c.op))

---------------------------------------------------------------------------
(* The remote API.  It may accept or reject any call; a write it accepts    *)
(* replaces the resolver of that typeName and fieldName.                    *)

Stored(params) ==
    RemoteResolver(params.typeName, params.fieldName, params.dataSourceName,
                   params.requestMappingTemplate, params.responseMappingTemplate,
                   params.kind, params.pipelineConfig)

Upsert(resolvers, params) ==
    {r \in resolvers : ~(r.typeName = params.typeName /\ r.fieldName = params.fieldName)}
        \cup {Stored(params)}

Remove(resolvers, typeName, fieldName) ==
    {r \in resolvers : ~(r.typeName = typeName /\ r.fieldName = fieldName)}

Deployed(resolvers, typeName, fieldName) ==
    \E r \in resolvers : r.typeName = typeName /\ r.fieldName = fieldName

---------------------------------------------------------------------------
(* createOrUpdateResolvers: the steps. *)

Templates == config.mappingTemplates
AllOk == \A i \in DOMAIN tasks : tasks[i] = "ok"
Reject(kind) == IF error = Nil THEN kind ELSE error

\* lines 24-33: one listResolvers call per declared mapping template
ListCalls ==
    Issued([i \in DOMAIN Templates |->
        Call(pass, i, "listResolvers", ReadParams(config.apiId, Templates[i].type, Nil, Nil))])

\* Start as it would be with the duplicate check after the listResolvers calls
StartListsFirst ==
    /\ pc = "idle"
    /\ calls' = calls \o ListCalls
    /\ IF HasDuplicates(DuplicateKeys, Templates)
       THEN /\ pc' = "checking"
            /\ error' = "Duplicate"
            /\ UNCHANGED tasks
       ELSE /\ pc' = "listing"
            /\ tasks' = [i \in DOMAIN Templates |-> "pending"]
            /\ UNCHANGED error
    /\ UNCHANGED <<config, remote, pass, listed, dsType, deployedResolvers,
                   resolversWithTemplates, resolversToDeploy, result, applied, rejected>>
    /\ UNCHANGED <<outcomes, state, rpc, obsoleteResolvers, rtasks, rerror>>

\* lines 11-35, to the await of line 23: the duplicate check throws before
\* anything else; else every listResolvers call is issued
Start ==
    /\ pc = "idle"
    /\ IF HasDuplicates(DuplicateKeys, Templates)
       THEN /\ pc' = "checking"
            /\ error' = "Duplicate"
            /\ UNCHANGED <<tasks, calls>>
       ELSE /\ pc' = "listing"
            /\ tasks' = [i \in DOMAIN Templates |-> "pending"]
            /\ calls' = calls \o ListCalls
            /\ UNCHANGED error
    /\ UNCHANGED <<config, remote, pass, listed, dsType, deployedResolvers,
                   resolversWithTemplates, resolversToDeploy, result, applied, rejected>>
    /\ UNCHANGED <<outcomes, state, rpc, obsoleteResolvers, rtasks, rerror>>

\* a listResolvers call resolves with the resolvers of the type (once the
\* pass has thrown nothing reads the answer of a read call)
ListResolved(i) ==
    /\ pc = "listing" /\ error = Nil /\ tasks[i] = "pending"
    /\ tasks' = [tasks EXCEPT ![i] = "ok"]
    /\ listed' = [listed EXCEPT ![i] = listAll(remote, Templates[i].type)]
    /\ UNCHANGED <<config, remote, pass, pc, dsType, deployedResolvers,
                   resolversWithTemplates, resolversToDeploy, result, error, calls,
                   applied, rejected>>
    /\ UNCHANGED <<outcomes, state, rpc, obsoleteResolvers, rtasks, rerror>>

\* a remote read rejects: Promise.all rejects with the first rejection (lines 23, 37)
ReadRejected(i) ==
    /\ pc \in {"listing", "templates"} /\ error = Nil /\ tasks[i] = "pending"
    /\ tasks' = [tasks EXCEPT ![i] = "rejected"]
    /\ error' = "RemoteError"
    /\ UNCHANGED <<config, remote, pass, pc, listed, dsType, deployedResolvers,
                   resolversWithTemplates, resolversToDeploy, result, calls,
                   applied, rejected>>
    /\ UNCHANGED <<outcomes, state, rpc, obsoleteResolvers, rtasks, rerror>>

\* lines 43-45: getDataSource is called for the resolvers that miss a template
DataSourceCalls ==
    Issued([i \in DOMAIN Templates |->
        Call(pass, i, IF NeedsDataSource(Templates[i]) THEN "getDataSource" ELSE Nil,
             ReadParams(config.apiId, Nil, Nil, Templates[i].dataSource))])

\* ResolveTemplates as it would be without the await of line 23: the template
\* resolutions start as soon as one listResolvers call has resolved
ResolveTemplatesUnawaited ==
    /\ pc = "listing" /\ error = Nil /\ \E i \in DOMAIN tasks : tasks[i] = "ok"
    /\ pc' = "templates"
    /\ deployedResolvers' = DeployedOf(listed)
    /\ tasks' = [i \in DOMAIN Templates |->
                    IF NeedsDataSource(Templates[i]) THEN "pending" ELSE "ok"]
    /\ calls' = calls \o DataSourceCalls
    /\ UNCHANGED <<config, remote, pass, listed, dsType, resolversWithTemplates,
                   resolversToDeploy, result, error, applied, rejected>>
    /\ UNCHANGED <<outcomes, state, rpc, obsoleteResolvers, rtasks, rerror>>

\* lines 13-22 and 37-45, from the await of line 23 to the await of line 37
ResolveTemplates ==
    /\ pc = "listing" /\ error = Nil /\ AllOk
    /\ pc' = "templates"
    /\ deployedResolvers' = DeployedOf(listed)
    /\ tasks' = [i \in DOMAIN Templates |->
                    IF NeedsDataSource(Templates[i]) THEN "pending" ELSE "ok"]
    /\ calls' = calls \o DataSourceCalls
    /\ UNCHANGED <<config, remote, pass, listed, dsType, resolversWithTemplates,
                   resolversToDeploy, result, error, applied, rejected>>
    /\ UNCHANGED <<outcomes, state, rpc, obsoleteResolvers, rtasks, rerror>>

\* a getDataSource call resolves with the data source, when there is one of that name
DataSourceResolved(i) ==
    /\ pc = "templates" /\ error = Nil /\ tasks[i] = "pending"
    /\ ~isNil(DataSourceType(Templates[i].dataSource))
    /\ tasks' = [tasks EXCEPT ![i] = "ok"]
    /\ dsType' = [dsType EXCEPT ![i] = DataSourceType(Templates[i].dataSource)]
    /\ UNCHANGED <<config, remote, pass, pc, listed, deployedResolvers,
                   resolversWithTemplates, resolversToDeploy, result, error, calls,
                   applied, rejected>>
    /\ UNCHANGED <<outcomes, state, rpc, obsoleteResolvers, rtasks, rerror>>

\* WriteOp as it would be with a plain else on line 117
WriteOpUpdatingIgnored(resolver) ==
    IF resolver.mode = "create" THEN "createResolver" ELSE "updateResolver"

\* WriteOp as it would be if a resolver that differs were deleted, to be
\* created by the next pass
WriteOpDeletingChanged(resolver) ==
    IF resolver.mode = "create" THEN "createResolver"
    ELSE IF resolver.mode = "update" THEN "deleteResolver"
    ELSE Nil

\* lines 114-120: the call the apply task of a resolver issues
WriteOp(resolver) ==
    IF resolver.mode = "create" THEN "createResolver"
    ELSE IF resolver.mode = "update" THEN "updateResolver"
    ELSE Nil

\* lines 76-121, to the await: the promise of the resolver's apply task
ApplyTask(resolver, cfg) ==
    IF ~isNil(ApplyError(resolver, cfg.functions)) THEN "rejected"
    ELSE IF ~isNil(WriteOp(resolver)) THEN "pending"
    ELSE "ok"

\* the calls the apply tasks issue
WriteCalls(toDeploy, cfg, p) ==
    Issued([i \in DOMAIN toDeploy |->
        Call(p, i, IF ApplyTask(toDeploy[i], cfg) = "pending" THEN WriteOp(toDeploy[i]) ELSE Nil,
             Params(toDeploy[i], cfg))])

\* Promise.all of line 75 rejects with the first task that threw
FirstApplyError(toDeploy, cfg) ==
    LET bad == {i \in DOMAIN toDeploy : ApplyTask(toDeploy[i], cfg) = "rejected"}
    IN  IF bad = {} THEN Nil
        ELSE ApplyError(toDeploy[CHOOSE i \in bad : \A j \in bad : i <= j], cfg.functions)

\* lines 54-122, from the await of line 37 to the await of line 75: the
\* templates are merged, the modes computed, and every apply task runs to
\* its remote call or to its throw
Apply ==
    /\ pc = "templates" /\ error = Nil /\ AllOk
    /\ pc' = "applying"
    /\ resolversWithTemplates' =
            [i \in DOMAIN Templates |-> WithTemplates(Templates[i], dsType[i])]
    /\ resolversToDeploy' = Classify(resolversWithTemplates', deployedResolvers)
    /\ tasks' = [i \in DOMAIN Templates |-> ApplyTask(resolversToDeploy'[i], config)]
    /\ calls' = calls \o WriteCalls(resolversToDeploy', config, pass)
    /\ error' = FirstApplyError(resolversToDeploy', config)
    /\ UNCHANGED <<config, remote, pass, listed, dsType, deployedResolvers, result,
                   applied, rejected>>
    /\ UNCHANGED <<outcomes, state, rpc, obsoleteResolvers, rtasks, rerror>>

\* the remote applies a createResolver / updateResolver call and answers
WriteResolved(i) ==
    /\ pc = "applying" /\ tasks[i] = "pending"
    /\ remote' = Upsert(remote, Params(resolversToDeploy[i], config))
    /\ tasks' = [tasks EXCEPT ![i] = "ok"]
    /\ applied' = applied \cup {<<pass, i>>}
    /\ UNCHANGED <<config, pass, pc, listed, dsType, deployedResolvers,
                   resolversWithTemplates, resolversToDeploy, result, error, calls,
                   rejected>>
    /\ UNCHANGED <<outcomes, state, rpc, obsoleteResolvers, rtasks, rerror>>

\* the remote rejects a createResolver / updateResolver call
WriteRejected(i) ==
    /\ pc = "applying" /\ tasks[i] = "pending"
    /\ tasks' = [tasks EXCEPT ![i] = "rejected"]
    /\ rejected' = rejected \cup {<<pass, i>>}
    /\ error' = Reject("RemoteError")
    /\ UNCHANGED <<config, remote, pass, pc, listed, dsType, deployedResolvers,
                   resolversWithTemplates, resolversToDeploy, result, calls, applied>>
    /\ UNCHANGED <<outcomes, state, rpc, obsoleteResolvers, rtasks, rerror>>

\* Return as it would be if only the resolvers that were written were returned
ReturnWritten ==
    /\ pc = "applying" /\ error = Nil /\ AllOk
    /\ pc' = "end"
    /\ result' = SelectSeq(resolversToDeploy, LAMBDA r : r.mode # "ignore")
    /\ UNCHANGED <<config, remote, pass, tasks, listed, dsType, deployedResolvers,
                   resolversWithTemplates, resolversToDeploy, error, calls, applied,
                   rejected>>
    /\ UNCHANGED <<outcomes, state, rpc, obsoleteResolvers, rtasks, rerror>>

\* lines 75 and 121-123: every task resolved, the pass returns the resolvers
Return ==
    /\ pc = "applying" /\ error = Nil /\ AllOk
    /\ pc' = "end"
    /\ result' = resolversToDeploy
    /\ UNCHANGED <<config, remote, pass, tasks, listed, dsType, deployedResolvers,
                   resolversWithTemplates, resolversToDeploy, error, calls, applied,
                   rejected>>
    /\ UNCHANGED <<outcomes, state, rpc, obsoleteResolvers, rtasks, rerror>>

\* the pass is over and the remote has answered every write of it
Settled ==
    /\ pc = "end" \/ error # Nil
    /\ pc = "applying" => \A i \in DOMAIN tasks : tasks[i] # "pending"

\* the caller runs createOrUpdateResolvers again, with the same config, once
\* the pass is over and the remote has answered its calls
Rerun ==
    /\ Settled /\ pass < MaxPasses
    /\ pass' = pass + 1
    /\ outcomes' = Append(outcomes, IF pc = "end" THEN "returned" ELSE "thrown")
    /\ pc' = "idle"
    /\ tasks' = <<>>
    /\ listed' = [i \in DOMAIN Templates |-> <<>>]
    /\ dsType' = [i \in DOMAIN Templates |-> Nil]
    /\ deployedResolvers' = <<>>
    /\ resolversWithTemplates' = <<>>
    /\ resolversToDeploy' = <<>>
    /\ result' = <<>>
    /\ error' = Nil
    /\ UNCHANGED <<config, remote, calls, applied, rejected>>
    /\ UNCHANGED <<state, rpc, obsoleteResolvers, rtasks, rerror>>

IdlePass(templates) ==
    /\ pc = "idle"
    /\ tasks = <<>>
    /\ listed = [i \in DOMAIN templates |-> <<>>]
    /\ dsType = [i \in DOMAIN templates |-> Nil]
    /\ deployedResolvers = <<>>
    /\ resolversWithTemplates = <<>>
    /\ resolversToDeploy = <<>>
    /\ result = <<>>
    /\ error = Nil

IdleRemove ==
    /\ state = <<>>
    /\ rpc = "idle"
    /\ obsoleteResolvers = <<>>
    /\ rtasks = <<>>
    /\ rerror = Nil

Init ==
    /\ config \in {ConfigOf(t) : t \in SeqsUpTo(MappingTemplates, MaxTemplates)}
    /\ remote \in InitRemotes
    /\ pass = 1
    /\ IdlePass(config.mappingTemplates)
    /\ calls = <<>>
    /\ applied = {}
    /\ rejected = {}
    /\ outcomes = <<>>
    /\ IdleRemove

Next ==
    \/ Start
    \/ \E i \in DOMAIN tasks : ListResolved(i)
    \/ \E i \in DOMAIN tasks : ReadRejected(i)
    \/ ResolveTemplates
    \/ \E i \in DOMAIN tasks : DataSourceResolved(i)
    \/ Apply
    \/ \E i \in DOMAIN tasks : WriteResolved(i)
    \/ \E i \in DOMAIN tasks : WriteRejected(i)
    \/ Return

Spec == Init /\ [][Next]_vars

\* createOrUpdateResolvers run again and again with the same config
NextRerun ==
    \/ Next
    \/ Rerun

SpecRerun == Init /\ [][NextRerun]_vars

---------------------------------------------------------------------------
(* removeObsoleteResolvers. *)

\* ramda's pick(['type', 'field'])
pickTypeField(resolver) == [type |-> resolver.type, field |-> resolver.field]

\* ramda's difference(first, second): the entries of first that equal no
\* entry of second, without duplicates, in the order of first
RECURSIVE differenceInto(_, _, _)
differenceInto(out, first, second) ==
    IF first = <<>> THEN out
    ELSE differenceInto(
            IF Head(first) \in Range(second) \/ Head(first) \in Range(out) THEN out
            ELSE Append(out, Head(first)),
            Tail(first), second)
difference(first, second) == differenceInto(<<>>, first, second)

\* lines 134-137: the entries of state.mappingTemplates, as they are, that
\* equal no {type, field} pair of config.mappingTemplates
ObsoleteResolvers(stateTemplates, configTemplates) ==
    difference(stateTemplates,
               [i \in DOMAIN configTemplates |-> pickTypeField(configTemplates[i])])

\* lines 142-148
DeleteCalls(obsolete, apiId) ==
    Issued([i \in DOMAIN obsolete |->
        Call(0, i, "deleteResolver",
             ReadParams(apiId, obsolete[i].type, obsolete[i].field, Nil))])

\* lines 133-148, to the awaits: every delete is issued
StartRemove ==
    /\ rpc = "idle"
    /\ rpc' = "removing"
    /\ obsoleteResolvers' = ObsoleteResolvers(state, Templates)
    /\ rtasks' = [i \in DOMAIN obsoleteResolvers' |-> "pending"]
    /\ calls' = calls \o DeleteCalls(obsoleteResolvers', config.apiId)
    /\ UNCHANGED <<config, remote, state, rerror>>
    /\ UNCHANGED syncVars

\* the remote deletes the resolver and answers
DeleteResolved(i) ==
    /\ rpc = "removing" /\ rtasks[i] = "pending"
    /\ Deployed(remote, obsoleteResolvers[i].type, obsoleteResolvers[i].field)
    /\ remote' = Remove(remote, obsoleteResolvers[i].type, obsoleteResolvers[i].field)
    /\ rtasks' = [rtasks EXCEPT ![i] = "ok"]
    /\ UNCHANGED <<config, calls, state, rpc, obsoleteResolvers, rerror>>
    /\ UNCHANGED syncVars

\* the error codes deleteResolver rejects with
DeleteErrors == {"NotFoundException", "BadRequestException", "InternalFailureException"}

\* Swallowed as it would be with a catch that rethrows nothing
SwallowedAlways(code) == TRUE

\* line 150: the catch swallows the error
Swallowed(code) == code = "NotFoundException"

\* lines 149-154: the remote rejects a delete; NotFoundException when there is
\* no such resolver, any other error at any time
DeleteRejected(i, code) ==
    /\ rpc = "removing" /\ rtasks[i] = "pending"
    /\ code = "NotFoundException" =>
            ~Deployed(remote, obsoleteResolvers[i].type, obsoleteResolvers[i].field)
    /\ rtasks' = [rtasks EXCEPT ![i] = code]
    /\ rerror' = IF Swallowed(code) \/ rerror # Nil THEN rerror ELSE code
    /\ UNCHANGED <<config, remote, calls, state, rpc, obsoleteResolvers>>
    /\ UNCHANGED syncVars

\* line 138: every task resolved, removeObsoleteResolvers returns
FinishRemove ==
    /\ rpc = "removing" /\ rerror = Nil
    /\ \A i \in DOMAIN rtasks : rtasks[i] # "pending"
    /\ rpc' = "end"
    /\ UNCHANGED <<config, remote, calls, state, obsoleteResolvers, rtasks, rerror>>
    /\ UNCHANGED syncVars

\* state.mappingTemplates: entries of an earlier run, as {type, field} pairs
\* or with more fields
StateFields == {"getItem", "getOld"}
StateEntries ==
    { [type |-> t, field |-> f] : t \in Types, f \in StateFields }
    \cup
    { [type |-> t, field |-> f, dataSource |-> "DS1"] : t \in Types, f \in StateFields }

\* removeObsoleteResolvers reads the type and field of the declared resolvers only
RemoveTemplates ==
    { MappingTemplate("DS1", t, f, <<"req.vtl", "RES">>, Nil, NoPipelineConfig) :
        t \in Types, f \in Fields }

InitRemove ==
    /\ config \in {ConfigOf(t) : t \in SeqsUpTo(RemoveTemplates, MaxTemplates)}
    /\ remote \in {{}, {UnitSeed, OtherSeed}}
    /\ pass = 1
    /\ IdlePass(config.mappingTemplates)
    /\ calls = <<>>
    /\ applied = {}
    /\ rejected = {}
    /\ outcomes = <<>>
    /\ state \in SeqsUpTo(StateEntries, MaxState)
    /\ rpc = "idle"
    /\ obsoleteResolvers = <<>>
    /\ rtasks = <<>>
    /\ rerror = Nil

NextRemove ==
    \/ StartRemove
    \/ \E i \in DOMAIN rtasks : DeleteResolved(i)
    \/ \E i \in DOMAIN rtasks, code \in DeleteErrors : DeleteRejected(i, code)
    \/ FinishRemove

SpecRemove == InitRemove /\ [][NextRemove]_vars

\* one call of either function: createOrUpdateResolvers, which has no state
\* parameter, in the worlds without state.mappingTemplates, or
\* removeObsoleteResolvers
InitEither == Init \/ InitRemove

NextEither ==
    \/ rpc = "idle" /\ state = <<>> /\ Next
    \/ pc = "idle" /\ NextRemove

SpecEither == InitEither /\ [][NextEither]_vars

---------------------------------------------------------------------------
(* The claims. *)

Writes == {"createResolver", "updateResolver"}

\* the positions in calls of the calls of pass p
CallsOfPass(p) == {n \in DOMAIN calls : calls[n].pass = p}
\* the positions in calls of the createResolver / updateResolver calls that
\* the apply task of declared resolver i issued in pass p
WritesOf(p, i) ==
    {n \in CallsOfPass(p) : calls[n].index = i /\ calls[n].op \in Writes}

\* the modes are computed and the remote is still as the pass listed it
JustClassified ==
    pc = "applying" /\ \A i \in DOMAIN tasks : <<pass, i>> \notin applied

\* the deployed resolvers with the type and field of declared resolver D
Matching(D) == {r \in remote : r.typeName = D.type /\ r.fieldName = D.field}
SameFive(r, D) ==
    /\ r.dataSourceName = D.dataSource
    /\ r.typeName = D.type
    /\ r.fieldName = D.field
    /\ r.requestMappingTemplate = D.requestMappingTemplate
    /\ r.responseMappingTemplate = D.responseMappingTemplate

\* C3: every declared resolver D gets mode create when no deployed resolver has
\* its type and field, update when one has them and differs from D in dataSource,
\* type, field, request template or response template, ignore when all five are equal
C3_ModeClassification ==
    JustClassified =>
        \A i \in DOMAIN resolversToDeploy :
            LET D == resolversToDeploy[i] IN
            /\ Matching(D) = {} => D.mode = "create"
            /\ (\E r \in Matching(D) : ~SameFive(r, D)) => D.mode = "update"
            /\ (\E r \in Matching(D) : SameFive(r, D)) => D.mode = "ignore"

C3_Witness ==
    /\ JustClassified
    /\ \E i \in DOMAIN resolversToDeploy, j \in DOMAIN resolversToDeploy :
            /\ resolversToDeploy[i].mode = "update"
            /\ resolversToDeploy[j].mode = "ignore"

\* two declared resolvers have the same dataSource, type and field
DeclaresDuplicate ==
    \E i \in DOMAIN Templates, j \in DOMAIN Templates :
        /\ i # j
        /\ Templates[i].dataSource = Templates[j].dataSource
        /\ Templates[i].type = Templates[j].type
        /\ Templates[i].field = Templates[j].field

\* C4: when two declared resolvers share dataSource, type and field, the pass
\* fails and has issued no remote call at any point
C4_DuplicatesBeforeRemote ==
    DeclaresDuplicate =>
        /\ CallsOfPass(pass) = {}
        /\ pc # "idle" => (pc = "checking" /\ error # Nil)

C4_Witness == DeclaresDuplicate /\ pc = "checking" /\ error = "Duplicate"

\* a PIPELINE resolver with a dataSource, or another resolver without one
KindMismatch(t) ==
    \/ t.kind = "PIPELINE" /\ t.dataSource # Nil
    \/ t.kind # "PIPELINE" /\ t.dataSource = Nil

\* C6: when the config declares a PIPELINE resolver with a dataSource, or a
\* resolver of another kind without one, the pass never returns, it has
\* thrown once the apply stage is reached, and no createResolver or
\* updateResolver call is issued for that resolver
C6_KindDataSourceValidation ==
    \A i \in DOMAIN Templates :
        KindMismatch(Templates[i]) =>
            /\ pc # "end"
            /\ WritesOf(pass, i) = {}
            /\ pc = "applying" => error # Nil

C6_Witness ==
    /\ pc = "applying"
    /\ error \in {"PipelineWithDataSource", "DataSourceMissing"}
    /\ \E i \in DOMAIN Templates, j \in DOMAIN Templates :
            KindMismatch(Templates[i]) /\ WritesOf(pass, j) # {}

\* a PIPELINE resolver one of whose function names has no entry with a
\* functionId in config.functions
UnresolvedFunction(t) ==
    /\ t.kind = "PIPELINE"
    /\ t.pipelineConfig.declared
    /\ \E n \in DOMAIN t.pipelineConfig.functions :
            ~ \E f \in DOMAIN config.functions :
                /\ config.functions[f].name = t.pipelineConfig.functions[n]
                /\ config.functions[f].functionId # Nil

\* C7: when a declared PIPELINE resolver names a function that config.functions
\* has no entry for, or an entry without functionId, the pass never returns, it
\* has thrown once the apply stage is reached, and no createResolver or
\* updateResolver call is issued for that resolver
C7_PipelineFunctionResolution ==
    \A i \in DOMAIN Templates :
        UnresolvedFunction(Templates[i]) =>
            /\ pc # "end"
            /\ WritesOf(pass, i) = {}
            /\ pc = "applying" => error # Nil

C7_Witness ==
    /\ pc = "applying"
    /\ error \in {"TypeError", "FunctionMissing"}
    /\ \E i \in DOMAIN Templates, j \in DOMAIN Templates :
            UnresolvedFunction(Templates[i]) /\ WritesOf(pass, j) # {}

\* C8: in a pass that returned, a resolver of mode create caused exactly one
\* createResolver call and no updateResolver call, one of mode update exactly
\* one updateResolver call and no createResolver call, one of mode ignore
\* neither; each such call carries the config's apiId and the resolver's type
\* and field as typeName and fieldName
C8_DispatchMatchesMode ==
    pc = "end" =>
        \A i \in DOMAIN result :
            LET D == result[i]
                W == WritesOf(pass, i)
            IN  /\ D.mode = "create" =>
                    Cardinality(W) = 1 /\ \A n \in W : calls[n].op = "createResolver"
                /\ D.mode = "update" =>
                    Cardinality(W) = 1 /\ \A n \in W : calls[n].op = "updateResolver"
                /\ D.mode = "ignore" => W = {}
                /\ \A n \in W :
                    /\ calls[n].params.apiId = config.apiId
                    /\ calls[n].params.typeName = D.type
                    /\ calls[n].params.fieldName = D.field

C8_Witness ==
    /\ pc = "end"
    /\ \E i \in DOMAIN result, j \in DOMAIN result :
            /\ result[i].mode = "update" /\ WritesOf(pass, i) # {}
            /\ result[j].mode = "ignore"

\* C9: a declared resolver that misses its request or response template after
\* template resolution gets, when its data source is of type AWS_LAMBDA, the
\* Lambda template for each template it misses and keeps a template it
\* provided; when the data source is of another type its templates stay as
\* resolved, the missing ones nil
C9_LambdaFallback ==
    pc \in {"applying", "end"} =>
        \A i \in DOMAIN Templates :
            LET request == readIfFile(Templates[i].request)
                response == readIfFile(Templates[i].response)
                W == resolversWithTemplates[i]
            IN  (isNil(request) \/ isNil(response)) =>
                    IF DataSourceType(Templates[i].dataSource) = "AWS_LAMBDA"
                    THEN /\ W.requestMappingTemplate =
                                IF isNil(request) THEN LambdaRequestTemplate ELSE request
                         /\ W.responseMappingTemplate =
                                IF isNil(response) THEN LambdaResponseTemplate ELSE response
                    ELSE /\ W.requestMappingTemplate = request
                         /\ W.responseMappingTemplate = response

\* C10: a pass that returned returns one entry per declared mapping template,
\* in the declared order, each the declared resolver with its resolved
\* templates and a mode of create, update or ignore; resolvers of mode ignore
\* and resolvers with nil templates are among them
C10_ResultShape ==
    pc = "end" =>
        /\ Len(result) = Len(Templates)
        /\ \A i \in DOMAIN result :
            /\ result[i].dataSource = Templates[i].dataSource
            /\ result[i].type = Templates[i].type
            /\ result[i].field = Templates[i].field
            /\ result[i].request = Templates[i].request
            /\ result[i].response = Templates[i].response
            /\ result[i].kind = Templates[i].kind
            /\ result[i].pipelineConfig = Templates[i].pipelineConfig
            /\ result[i].requestMappingTemplate =
                    resolversWithTemplates[i].requestMappingTemplate
            /\ result[i].responseMappingTemplate =
                    resolversWithTemplates[i].responseMappingTemplate
            /\ result[i].mode \in {"create", "update", "ignore"}

C10_Witness ==
    /\ pc = "end"
    /\ \E i \in DOMAIN result, j \in DOMAIN result :
            /\ result[i].mode = "ignore"
            /\ result[j].mode = "create"
            /\ isNil(result[j].requestMappingTemplate)

\* the createResolver / updateResolver calls of pass p, as positions in calls
WritesOfPass(p) == {n \in CallsOfPass(p) : calls[n].op \in Writes}

\* the pass before this one returned, the remote applied every write of it,
\* and no two of its writes were for the same typeName and fieldName: the
\* remote reflects every one of them
PreviousPassReflected ==
    /\ pass > 1
    /\ outcomes[pass - 1] = "returned"
    /\ \A n \in WritesOfPass(pass - 1) : <<pass - 1, calls[n].index>> \in applied
    /\ \A n \in WritesOfPass(pass - 1), m \in WritesOfPass(pass - 1) :
            (/\ calls[n].params.typeName = calls[m].params.typeName
             /\ calls[n].params.fieldName = calls[m].params.fieldName) => n = m

\* C1: when a pass runs with the config of the pass before it, on a remote that
\* reflects every write of that pass, it issues no createResolver or
\* updateResolver call and every resolver it classifies has mode ignore
C1_Idempotence ==
    PreviousPassReflected =>
        /\ WritesOfPass(pass) = {}
        /\ pc \in {"applying", "end"} =>
                \A i \in DOMAIN resolversToDeploy : resolversToDeploy[i].mode = "ignore"

\* no two declared resolvers share type and field
DistinctTypeAndField ==
    \A i \in DOMAIN Templates, j \in DOMAIN Templates :
        (Templates[i].type = Templates[j].type /\ Templates[i].field = Templates[j].field)
            => i = j

\* C1 holds of the configs that declare no (type, field) twice
C1_IdempotenceOfDistinctKeys == DistinctTypeAndField => C1_Idempotence

\* declared resolver D, with its templates resolved, has a deployed resolver of
\* its type and field with its dataSource and its two templates
Converged(D) == \E r \in remote : SameFive(r, D)

\* C11: when a pass has returned, the remote having applied every write of it,
\* every declared resolver has a deployed resolver with its type and field whose
\* dataSource, request template and response template equal the declared ones
C11_Convergence ==
    pc = "end" =>
        \A i \in DOMAIN resolversToDeploy : Converged(resolversToDeploy[i])

\* C11 holds of the configs that declare no (type, field) twice
C11_ConvergenceOfDistinctKeys == DistinctTypeAndField => C11_Convergence

C11_DistinctKeysWitness ==
    /\ DistinctTypeAndField
    /\ pc = "end"
    /\ \E i \in DOMAIN resolversToDeploy, j \in DOMAIN resolversToDeploy :
            /\ resolversToDeploy[i].mode = "create"
            /\ resolversToDeploy[j].mode = "update"

\* the pass before this one threw because the remote rejected a write of it,
\* having applied another write of it; no declared resolver has a
\* configuration error
PreviousPassPartlyApplied ==
    /\ pass > 1
    /\ outcomes[pass - 1] = "thrown"
    /\ \E i \in DOMAIN Templates : <<pass - 1, i>> \in rejected
    /\ \E i \in DOMAIN Templates : <<pass - 1, i>> \in applied
    /\ \A i \in DOMAIN Templates :
            ~KindMismatch(Templates[i]) /\ ~UnresolvedFunction(Templates[i])

\* C12: a pass that follows, with the same config, a pass that failed on a
\* rejected write while other writes of it were applied gives mode ignore to
\* each resolver whose write was applied and create or update to each resolver
\* whose write was rejected, issues no createResolver for a type and field
\* that the remote has when the call is issued, and, once it has returned,
\* leaves every declared resolver with a matching deployed resolver
C12_SafeRerun ==
    PreviousPassPartlyApplied =>
        /\ pc \in {"applying", "end"} =>
                \A i \in DOMAIN resolversToDeploy :
                    /\ <<pass - 1, i>> \in applied => resolversToDeploy[i].mode = "ignore"
                    /\ <<pass - 1, i>> \in rejected =>
                            resolversToDeploy[i].mode \in {"create", "update"}
        /\ JustClassified =>
                \A n \in WritesOfPass(pass) :
                    calls[n].op = "createResolver" =>
                        ~Deployed(remote, calls[n].params.typeName, calls[n].params.fieldName)
        /\ pc = "end" =>
                \A i \in DOMAIN resolversToDeploy : Converged(resolversToDeploy[i])

\* C12 holds of the configs that declare no (type, field) twice
C12_SafeRerunOfDistinctKeys == DistinctTypeAndField => C12_SafeRerun

C12_DistinctKeysWitness ==
    /\ DistinctTypeAndField
    /\ PreviousPassPartlyApplied
    /\ pc = "end"
    /\ \E i \in DOMAIN resolversToDeploy, j \in DOMAIN resolversToDeploy :
            /\ resolversToDeploy[i].mode = "ignore"
            /\ resolversToDeploy[j].mode = "create"

\* the positions in calls of the calls that the step issues
IssuedByStep == DOMAIN calls' \ DOMAIN calls

\* every task of the stage the pass is in has resolved and nothing was thrown:
\* in stage listing the tasks are the listResolvers calls, in stage templates
\* the template resolutions with their getDataSource calls
StageCompleted == error = Nil /\ \A i \in DOMAIN Templates : tasks[i] = "ok"

\* C13: a step issues getDataSource calls only from the listing stage with every
\* listResolvers call resolved, and createResolver / updateResolver calls only
\* from the template stage with every template resolution resolved; the pass
\* leaves a stage only when every call of it has resolved, so once a call of
\* the listing or template stage has rejected no call is issued any more
C13_StageOrdering ==
    [][ /\ \A n \in IssuedByStep :
            /\ calls'[n].op = "listResolvers" => pc = "idle"
            /\ calls'[n].op = "getDataSource" => pc = "listing" /\ StageCompleted
            /\ calls'[n].op \in Writes => pc = "templates" /\ StageCompleted
        /\ (pc \in {"listing", "templates"} /\ pc' # pc) => StageCompleted
        /\ (pc \in {"listing", "templates"} /\ ~StageCompleted) => calls' = calls
      ]_vars

C13_Witness ==
    /\ pc = "applying"
    /\ \E i \in DOMAIN Templates, j \in DOMAIN Templates :
            /\ i # j
            /\ \E n \in CallsOfPass(pass) : calls[n].index = i /\ calls[n].op = "getDataSource"
            /\ WritesOf(pass, i) # {}
            /\ WritesOf(pass, j) # {}

\* the resolver that the applied write of declared resolver j left is deployed,
\* unless an applied write of another resolver of its type and field replaced it
EffectRemains(j) ==
    \/ Stored(Params(resolversToDeploy[j], config)) \in remote
    \/ \E k \in DOMAIN resolversToDeploy :
            /\ k # j
            /\ <<pass, k>> \in applied
            /\ resolversToDeploy[k].type = resolversToDeploy[j].type
            /\ resolversToDeploy[k].field = resolversToDeploy[j].field

\* C14: once the remote has rejected a createResolver / updateResolver call of
\* the pass, the pass has failed with the error of the rejection and never
\* returns; no deleteResolver call and no second write for any resolver is
\* issued, and the resolver of every write that the remote applied stays deployed
C14_FailFastWithoutRollback ==
    (\E i \in DOMAIN Templates : <<pass, i>> \in rejected) =>
        /\ pc = "applying"
        /\ error = "RemoteError"
        /\ \A n \in CallsOfPass(pass) : calls[n].op # "deleteResolver"
        /\ \A j \in DOMAIN Templates : Cardinality(WritesOf(pass, j)) <= 1
        /\ \A j \in DOMAIN Templates : <<pass, j>> \in applied => EffectRemains(j)

\* C14 holds of the configs none of whose resolvers has a configuration error
C14_FailFastOfValidConfigs ==
    (\A i \in DOMAIN Templates :
        ~KindMismatch(Templates[i]) /\ ~UnresolvedFunction(Templates[i]))
            => C14_FailFastWithoutRollback

C14_ValidConfigWitness ==
    /\ \A i \in DOMAIN Templates :
            ~KindMismatch(Templates[i]) /\ ~UnresolvedFunction(Templates[i])
    /\ error = "RemoteError"
    /\ \E i \in DOMAIN Templates, j \in DOMAIN Templates :
            /\ <<pass, i>> \in rejected
            /\ <<pass, j>> \in applied
            /\ Stored(Params(resolversToDeploy[j], config)) \in remote

\* the functionId that config.functions gives the function of that name
IdOf(name) ==
    (CHOOSE f \in Range(config.functions) : f.name = name).functionId

\* C15: every createResolver / updateResolver call issued for a PIPELINE resolver
\* carries a pipelineConfig and no dataSourceName, the pipelineConfig holding the
\* ids of the declared function names in the order of the names, or being empty
\* when no functions are declared; every such call issued for a resolver of
\* another kind carries the declared dataSource as dataSourceName and no
\* pipelineConfig
C15_PayloadByKind ==
    \A n \in WritesOfPass(pass) :
        LET D == Templates[calls[n].index]
            P == calls[n].params
            names == D.pipelineConfig.functions
        IN  /\ D.kind = "PIPELINE" =>
                /\ P.pipelineConfig.present
                /\ isNil(P.dataSourceName)
                /\ D.pipelineConfig.declared =>
                        /\ P.pipelineConfig.hasFunctions
                        /\ Len(P.pipelineConfig.functions) = Len(names)
                        /\ \A k \in DOMAIN names :
                                P.pipelineConfig.functions[k] = IdOf(names[k])
                /\ ~D.pipelineConfig.declared =>
                        /\ ~P.pipelineConfig.hasFunctions
                        /\ P.pipelineConfig.functions = <<>>
            /\ D.kind # "PIPELINE" =>
                /\ ~isNil(P.dataSourceName)
                /\ P.dataSourceName = D.dataSource
                /\ ~P.pipelineConfig.present

C15_Witness ==
    \E n \in WritesOfPass(pass), m \in WritesOfPass(pass) :
        /\ Templates[calls[n].index].kind = "PIPELINE"
        /\ Templates[calls[n].index].pipelineConfig.functions = <<"f2", "f1">>
        /\ calls[n].params.pipelineConfig.functions = <<"id2", "id1">>
        /\ Templates[calls[m].index].kind # "PIPELINE"
        /\ calls[m].params.dataSourceName = "DS2"

\* the listResolvers calls of the pass for that type, as positions in calls
ListsOf(typeName) ==
    {n \in CallsOfPass(pass) :
        calls[n].op = "listResolvers" /\ calls[n].params.typeName = typeName}

\* C16: once the pass has issued its listResolvers calls there is exactly one
\* of them for each type that a declared resolver has, and every entry of the
\* deployed list has the typeName, fieldName and dataSourceName of a deployed
\* resolver as its type, field and dataSource
C16_ListsOncePerType ==
    /\ pc \notin {"idle", "checking"} =>
            \A i \in DOMAIN Templates : Cardinality(ListsOf(Templates[i].type)) = 1
    /\ pc \in {"templates", "applying", "end"} =>
            \A k \in DOMAIN deployedResolvers :
                LET d == deployedResolvers[k]
                IN  /\ d.type = d.typeName
                    /\ d.field = d.fieldName
                    /\ d.dataSource = d.dataSourceName

\* the aliases of C16 alone, and one call per declared resolver
C16_ListsOncePerTemplate ==
    /\ pc \notin {"idle", "checking"} =>
            /\ \A i \in DOMAIN Templates :
                    \E n \in ListsOf(Templates[i].type) : calls[n].index = i
            /\ Cardinality({n \in CallsOfPass(pass) : calls[n].op = "listResolvers"})
                    = Len(Templates)
    /\ pc \in {"templates", "applying", "end"} =>
            \A k \in DOMAIN deployedResolvers :
                LET d == deployedResolvers[k]
                IN  /\ d.type = d.typeName
                    /\ d.field = d.fieldName
                    /\ d.dataSource = d.dataSourceName

\* the errors that the synchronous part of an apply task throws (lines 81-85,
\* 105, 109)
ConfigurationErrors ==
    {"TypeError", "FunctionMissing", "PipelineWithDataSource", "DataSourceMissing"}

\* C17: when the pass has failed with a configuration error of the apply stage,
\* it has issued no createResolver or updateResolver call for any resolver
C17_AtomicValidation ==
    error \in ConfigurationErrors => WritesOfPass(pass) = {}

\* C18: no two createResolver / updateResolver calls of a pass are for the
\* same typeName and fieldName, whatever config the duplicate check accepts
C18_OneWritePerKey ==
    \A n \in WritesOfPass(pass), m \in WritesOfPass(pass) :
        (/\ calls[n].params.typeName = calls[m].params.typeName
         /\ calls[n].params.fieldName = calls[m].params.fieldName) => n = m

\* C18 holds of the configs that declare no (type, field) twice
C18_OneWritePerDistinctKey == DistinctTypeAndField => C18_OneWritePerKey

---------------------------------------------------------------------------
(* The claim about both functions. *)

\* the step is one of createOrUpdateResolvers, of removeObsoleteResolvers
SyncStep == pc # "idle" \/ pc' # "idle"
RemoveStep == rpc # "idle" \/ rpc' # "idle"

\* the deployed resolvers whose type and field no declared resolver has
Undeclared(resolvers) ==
    {r \in resolvers :
        ~ \E i \in DOMAIN Templates :
            Templates[i].type = r.typeName /\ Templates[i].field = r.fieldName}

\* C19: a step of createOrUpdateResolvers issues no deleteResolver call, every
\* createResolver / updateResolver call it issues is for the type and field of
\* a declared resolver, and it leaves the deployed resolvers of undeclared type
\* and field as they are; a step of removeObsoleteResolvers issues no call
\* other than deleteResolver
C19_Frame ==
    [][ /\ SyncStep =>
            /\ \A n \in IssuedByStep :
                    /\ calls'[n].op # "deleteResolver"
                    /\ calls'[n].op \in Writes =>
                            \E i \in DOMAIN Templates :
                                /\ Templates[i].type = calls'[n].params.typeName
                                /\ Templates[i].field = calls'[n].params.fieldName
            /\ Undeclared(remote') = Undeclared(remote)
        /\ RemoveStep =>
            \A n \in IssuedByStep : calls'[n].op = "deleteResolver"
      ]_vars

C19_Witness ==
    /\ pc = "end"
    /\ Undeclared(remote) # {}
    /\ \E n \in WritesOfPass(pass), m \in WritesOfPass(pass) :
            /\ calls[n].op = "createResolver" /\ <<pass, calls[n].index>> \in applied
            /\ calls[m].op = "updateResolver" /\ <<pass, calls[m].index>> \in applied

---------------------------------------------------------------------------
(* The claims about removeObsoleteResolvers. *)

Deletes == {n \in DOMAIN calls : calls[n].op = "deleteResolver"}
DeletesOf(typeName, fieldName) ==
    {n \in Deletes :
        calls[n].params.typeName = typeName /\ calls[n].params.fieldName = fieldName}

StatePairs == {pickTypeField(state[i]) : i \in DOMAIN state}
ConfigPairs == {pickTypeField(Templates[i]) : i \in DOMAIN Templates}

\* C2: once removeObsoleteResolvers has issued its calls, there is exactly one
\* deleteResolver call for each (type, field) of state.mappingTemplates that
\* config.mappingTemplates does not have, and none for any other (type, field)
C2_DeletesObsoletePairs ==
    rpc # "idle" =>
        /\ \A p \in StatePairs \ ConfigPairs : Cardinality(DeletesOf(p.type, p.field)) = 1
        /\ \A n \in Deletes :
            [type |-> calls[n].params.typeName, field |-> calls[n].params.fieldName]
                \in StatePairs \ ConfigPairs

\* C2 holds when every entry of state.mappingTemplates is a bare {type, field} pair
C2_DeletesObsoletePairsOfBareState ==
    (\A i \in DOMAIN state : state[i] = pickTypeField(state[i])) => C2_DeletesObsoletePairs

\* C5: a deleteResolver call is issued for every obsolete entry whether deletes
\* fail or not; removeObsoleteResolvers throws only an error that a delete
\* failed with and that is not the not-found error, it has thrown as soon as a
\* delete failed with such an error, and it returns without error when every
\* delete that failed failed with the not-found error
C5_RemoveErrorTolerance ==
    rpc # "idle" =>
        /\ Len(calls) = Len(obsoleteResolvers)
        /\ \A i \in DOMAIN obsoleteResolvers :
                /\ calls[i].op = "deleteResolver"
                /\ calls[i].params.typeName = obsoleteResolvers[i].type
                /\ calls[i].params.fieldName = obsoleteResolvers[i].field
                /\ calls[i].params.apiId = config.apiId
        /\ rerror # Nil =>
                /\ rerror # "NotFoundException"
                /\ \E i \in DOMAIN rtasks : rtasks[i] = rerror
        /\ (\E i \in DOMAIN rtasks : rtasks[i] \notin {"pending", "ok", "NotFoundException"})
                => (rerror # Nil /\ rpc # "end")
        /\ rpc = "end" => rerror = Nil
        /\ (\A i \in DOMAIN rtasks : rtasks[i] \in {"ok", "NotFoundException"})
                => (rerror = Nil /\ (rpc = "end" \/ ENABLED FinishRemove))

C5_Witness ==
    /\ rpc = "end"
    /\ rerror = Nil
    /\ \E i \in DOMAIN rtasks, j \in DOMAIN rtasks :
            rtasks[i] = "NotFoundException" /\ rtasks[j] = "ok"

===========================================================================
